---- MODULE Spec2Model ----
(***************************************************************************)
(* A model of MIDI2DECTalk.py: the tokenizer (categorize_phonemes), the     *)
(* syllable segmenter (parse_phonemes), the renderer                       *)
(* (translate_syllable_to_dectalk, get_dectalk_rest) and the MIDI event    *)
(* walk of main().                                                         *)
(*                                                                         *)
(* Python values of mixed type are modelled as tagged records, so that the *)
(* truthiness tests of the source (`if not first_note_ticks`,              *)
(* `if sustained_entity`) can be evaluated as the interpreter does.        *)
(***************************************************************************)
EXTENDS Integers, Sequences, FiniteSets, TLC

VARIABLES
    \* ---- categorize_phonemes ----
    phonemes,                   \* the string given to parse_phonemes
    unparsed,                   \* the part of it not yet tokenized
    tok_pc,                     \* "idle" | "loop" | "break" | "returned"
    \* ---- parse_phonemes ----
    categorized_phonemes,       \* the token list being segmented
    phoneme_index,              \* how many tokens the for loop has consumed
    parsed,                     \* list of completed syllables
    syllable_phonemes,          \* buffer of the syllable under construction
    consonants_between_vowels,
    vowel_present,
    seg_pc,                     \* "call" | "loop" | "returned"
    \* ---- main ----
    CONSONANT_DURATIONS,        \* configuration: per-symbol duration overrides
    IGNORE_NOTE_OFF_PITCH,      \* configuration: note-off policy
    tempo,
    ticks_per_beat,
    parsed_syllables,
    event_count,                \* events of the track consumed so far
    note_on_count,              \* how many of them were NOTE_ON events
    event,                      \* the loop variable: the event consumed last
    first_note_ticks,
    sustained_entity,
    start_of_sustain,
    next_syllable_index,        \* 0-based, as in the source
    output,                     \* the output text, as a sequence of pieces
    stderr,                     \* the conditions reported through error()
    pc                          \* "idle" | "loop" | "after" | "done" | "exit" | "crash"

tokVars == <<phonemes, unparsed, tok_pc>>
segVars == <<categorized_phonemes, phoneme_index, parsed, syllable_phonemes,
             consonants_between_vowels, vowel_present, seg_pc>>
cfgVars == <<CONSONANT_DURATIONS, IGNORE_NOTE_OFF_PITCH, tempo, ticks_per_beat,
             parsed_syllables>>
walkVars == <<event_count, note_on_count, event, first_note_ticks, sustained_entity,
              start_of_sustain, next_syllable_index, output, stderr, pc>>
vars == <<tokVars, segVars, cfgVars, walkVars>>

(***************************************************************************)
(* Bounds of the model.                                                    *)
(***************************************************************************)
MaxTokens == 6          \* length of the token lists given to the segmenter
MaxLyricTokens == 3     \* length of the token lists behind an event walk
MaxEvents == 4          \* events of a track
MaxChars == 5           \* length of the strings given to the tokenizer
MaxFairChars == 3       \* the same, where termination is checked

(***************************************************************************)
(* Constants and types of the source.                                      *)
(***************************************************************************)
DEFAULT_CONSONANT_DURATION == 90
PHONEME_CONVERSION == ("l" :> "ll")
VEL_ZERO_IS_NOTE_OFF == FALSE
REST == "_"
MIDI_DECTALK_PITCH_DELTA == 35
UNUSED == -1
NOTE_ON == 144
NOTE_OFF == 80

Category == [vowel |-> "V", consonant |-> "C", comma |-> ","]

Phoneme(p, c) == [phoneme |-> p, category |-> c]

\* The symbols the token lists are drawn from: one vowel, a consonant that
\* PHONEME_CONVERSION translates, one that it does not, and the word boundary.
\* Any concatenation of these symbols is tokenized back into the same tokens.
PhonemeAlphabet ==
    { Phoneme("eh", Category.vowel), Phoneme("l", Category.consonant),
      Phoneme("d", Category.consonant), Phoneme(", ", Category.comma) }

TokenLists(n) == UNION { [1..k -> PhonemeAlphabet] : k \in 0..n }

(***************************************************************************)
(* Python list slicing.                                                    *)
(***************************************************************************)
\* s[:-k] for 0 < k <= len(s)
DropLast(s, k) == SubSeq(s, 1, Len(s) - k)
\* s[-k:] for 0 < k <= len(s)
TakeLast(s, k) == SubSeq(s, Len(s) - k + 1, Len(s))

(***************************************************************************)
(* parse_phonemes: the body of the for loop, one case per token category.  *)
(* A segmenter state is a record of the four locals of the function.       *)
(***************************************************************************)
SegState(p, b, n, v) ==
    [parsed |-> p, syllable_phonemes |-> b,
     consonants_between_vowels |-> n, vowel_present |-> v]

SegInit == SegState(<<>>, <<>>, 0, FALSE)

\* CaseComma with `vowel_present = False` forgotten.
CaseCommaKeepsFlag(st) ==
    SegState(IF st.syllable_phonemes # <<>>
                THEN Append(st.parsed, st.syllable_phonemes)
                ELSE st.parsed,
             <<>>, 0, st.vowel_present)

CaseComma(st) ==
    SegState(IF st.syllable_phonemes # <<>>
                THEN Append(st.parsed, st.syllable_phonemes)
                ELSE st.parsed,
             <<>>, 0, FALSE)

CaseConsonant(st, phoneme) ==
    SegState(st.parsed, Append(st.syllable_phonemes, phoneme),
             st.consonants_between_vowels + 1, st.vowel_present)

\* math.ceil(consonants_between_vowels/2): the larger half given to the
\* second syllable.
CeilHalf(n) == (n + 1) \div 2

\* math.floor(consonants_between_vowels/2)
NumSecondWordConsonants(n) == n \div 2

\* TieBreak with the slices `[:-1]` and `[:-num_second_word_consonants]`
\* forgotten: the whole buffer is flushed.
TieBreakFlushesAll(st) ==
    LET buf == st.syllable_phonemes
        n   == st.consonants_between_vowels
    IN  IF n = 0 THEN [flushed |-> buf, seed |-> <<>>]
        ELSE IF n = 1
            THEN [flushed |-> buf, seed |-> <<buf[Len(buf)]>>]
            ELSE [flushed |-> buf, seed |-> TakeLast(buf, n \div 2)]

\* The tie-break taken when a second vowel is met: the syllable flushed and
\* the consonants that seed the new buffer.
TieBreak(st) ==
    LET buf == st.syllable_phonemes
        n   == st.consonants_between_vowels
    IN  IF n = 0 THEN [flushed |-> buf, seed |-> <<>>]
        ELSE IF n = 1
            THEN [flushed |-> DropLast(buf, 1), seed |-> <<buf[Len(buf)]>>]
            ELSE [flushed |-> DropLast(buf, NumSecondWordConsonants(n)),
                  seed    |-> TakeLast(buf, NumSecondWordConsonants(n))]

CaseVowel(st, phoneme) ==
    IF st.vowel_present
        THEN LET tb == TieBreak(st)
             IN  SegState(Append(st.parsed, tb.flushed),
                          Append(tb.seed, phoneme), 0, TRUE)
        ELSE SegState(st.parsed, Append(st.syllable_phonemes, phoneme), 0, TRUE)

\* The flush after the loop.
FinalFlush(st) ==
    IF st.syllable_phonemes # <<>>
        THEN Append(st.parsed, st.syllable_phonemes)
        ELSE st.parsed

SegStep(st, phoneme) ==
    CASE phoneme.category = Category.comma     -> CaseComma(st)
      [] phoneme.category = Category.consonant -> CaseConsonant(st, phoneme)
      [] phoneme.category = Category.vowel     -> CaseVowel(st, phoneme)

RECURSIVE SegRun(_, _)
SegRun(st, tokens) ==
    IF tokens = <<>> THEN st
    ELSE SegRun(SegStep(st, Head(tokens)), Tail(tokens))

\* parse_phonemes on an already categorized token list
parse_phonemes(tokens) == FinalFlush(SegRun(SegInit, tokens))

(***************************************************************************)
(* parse_phonemes as a state machine: one action per case of the match     *)
(* statement, and one for the code after the loop.                         *)
(***************************************************************************)
segState ==
    SegState(parsed, syllable_phonemes, consonants_between_vowels, vowel_present)

SegSet(st) ==
    /\ parsed' = st.parsed
    /\ syllable_phonemes' = st.syllable_phonemes
    /\ consonants_between_vowels' = st.consonants_between_vowels
    /\ vowel_present' = st.vowel_present

SegNext(cat) ==
    /\ seg_pc = "loop"
    /\ phoneme_index < Len(categorized_phonemes)
    /\ categorized_phonemes[phoneme_index + 1].category = cat
    /\ phoneme_index' = phoneme_index + 1
    /\ UNCHANGED <<tokVars, categorized_phonemes, seg_pc, cfgVars, walkVars>>

SegComma ==
    /\ SegNext(Category.comma)
    /\ SegSet(CaseComma(segState))

SegConsonant ==
    /\ SegNext(Category.consonant)
    /\ SegSet(CaseConsonant(segState, categorized_phonemes[phoneme_index + 1]))

SegVowel ==
    /\ SegNext(Category.vowel)
    /\ SegSet(CaseVowel(segState, categorized_phonemes[phoneme_index + 1]))

SegReturn ==
    /\ seg_pc = "loop"
    /\ phoneme_index = Len(categorized_phonemes)
    /\ parsed' = FinalFlush(segState)
    /\ seg_pc' = "returned"
    /\ UNCHANGED <<tokVars, categorized_phonemes, phoneme_index, syllable_phonemes,
                   consonants_between_vowels, vowel_present, cfgVars, walkVars>>

(***************************************************************************)
(* Python values.                                                          *)
(***************************************************************************)
None == [type |-> "NoneType"]
PyInt(n) == [type |-> "int", value |-> n]
PyStr(s) == [type |-> "str", value |-> s]
Note(n, o) == [type |-> "Note", note |-> n, octave |-> o]

\* bool(x), as `if x` and `not x` evaluate it
Truthy(x) ==
    CASE x.type = "NoneType" -> FALSE
      [] x.type = "int"      -> x.value # 0
      [] x.type = "str"      -> x.value # ""
      [] OTHER               -> TRUE

\* round(num/den, 0) of a rational with den > 0: to nearest, ties to even
PyRound(num, den) ==
    LET q == num \div den
        r == num % den
    IN  IF 2 * r < den THEN q
        ELSE IF 2 * r > den THEN q + 1
        ELSE IF q % 2 = 0 THEN q ELSE q + 1

(***************************************************************************)
(* The tokenizer: split_on_category_match and categorize_phonemes.         *)
(* Python strings are strings; slicing and concatenation are those of      *)
(* sequences.                                                              *)
(***************************************************************************)
VOWELS ==
    <<"aa", "ae", "ah", "ao", "aw", "ax", "ay", "eh", "el", "ey", "ih", "ix",
      "iy", "ow", "oy", "rr", "uh", "uw", "yx", "yu">>

\* The table with `d` moved in front of `dx` and `dh`.
CONSONANTS_ShortFirst ==
    <<"b", "ch", "d", "dx", "dh", "f", "g", "hx", "q", "jh", "k", "lx", "l", "m",
      "nx", "n", "p", "rx", "r", "sh", "s", "tx", "th", "t", "v", "w", "zh", "z">>

CONSONANTS ==
    <<"b", "ch", "dx", "dh", "d", "f", "g", "hx", "q", "jh", "k", "lx", "l", "m",
      "nx", "n", "p", "rx", "r", "sh", "s", "tx", "th", "t", "v", "w", "zh", "z">>

\* The list `[", "]` given to split_on_category_match for Category.comma
CommaTokens == <<", ">>

CategoryMatch(phoneme, remainder) == [phoneme |-> phoneme, remainder |-> remainder]

\* s.startswith(token)
startswith(s, token) == Len(s) >= Len(token) /\ SubSeq(s, 1, Len(token)) = token

\* s[k:] for 0 <= k
StrDrop(s, k) == SubSeq(s, k + 1, Len(s))

\* `match = token`: the stress mark dropped from the symbol.
MatchedToken(match, token) == token

\* `match = match + token`
Matched(match, token) == match \o token

\* `remainder[len(token) + 1:]`: one character too many.
RemainderSkipsOne(remainder, token) == StrDrop(remainder, Len(token) + 1)

\* `remainder = remainder[len(token):]`
RemainderAfter(remainder, token) == StrDrop(remainder, Len(token))

\* The index of the first token of the list that `remainder` starts with, 0
\* when the for loop ends without a match.
FirstMatch(remainder, category_tokens) ==
    LET hits == { i \in 1..Len(category_tokens) :
                    startswith(remainder, category_tokens[i]) }
    IN  IF hits = {} THEN 0
        ELSE CHOOSE i \in hits : \A j \in hits : i <= j

\* Called with a non-empty string only (`while unparsed`).
split_on_category_match(phonemes_, category, category_tokens, match_apostrophe) ==
    LET stressed  == match_apostrophe /\ SubSeq(phonemes_, 1, 1) = "'"
        match     == IF stressed THEN "'" ELSE ""
        remainder == IF stressed THEN StrDrop(phonemes_, 1) ELSE phonemes_
        i         == FirstMatch(remainder, category_tokens)
    IN  IF i = 0 THEN None
        ELSE CategoryMatch(Phoneme(Matched(match, category_tokens[i]), category),
                           RemainderAfter(remainder, category_tokens[i]))

\* The three attempts of one iteration of categorize_phonemes, in order.
category_match(unparsed_) ==
    LET v == split_on_category_match(unparsed_, Category.vowel, VOWELS, TRUE)
        c == split_on_category_match(unparsed_, Category.consonant, CONSONANTS, FALSE)
        w == split_on_category_match(unparsed_, Category.comma, CommaTokens, FALSE)
    IN  IF v # None THEN v ELSE IF c # None THEN c ELSE w

ParseError == "Error parsing phonemes; could not find a match at the start of: "

\* The locals of categorize_phonemes, with what it has written to stderr.
TokState(u, c, e, p) ==
    [unparsed |-> u, categorized_phonemes |-> c, stderr |-> e, pc |-> p]

TokEntry(phonemes_) == TokState(phonemes_, <<>>, {}, "loop")

\* The else branch with its `break` forgotten.
ReportOnly(st) == [st EXCEPT !.stderr = @ \cup {ParseError \o st.unparsed}]

\* The else branch: error(...) and break.
ReportAndBreak(st) ==
    [st EXCEPT !.stderr = @ \cup {ParseError \o st.unparsed}, !.pc = "break"]

\* One iteration of the while loop.
TokIteration(st) ==
    LET m == category_match(st.unparsed)
    IN  IF m # None
            THEN [st EXCEPT !.categorized_phonemes = Append(@, m.phoneme),
                            !.unparsed = m.remainder]
            ELSE ReportAndBreak(st)

\* `while unparsed`
TokLoops(st) == st.pc = "loop" /\ st.unparsed # ""

RECURSIVE TokRun(_)
TokRun(st) == IF TokLoops(st) THEN TokRun(TokIteration(st)) ELSE st

\* categorize_phonemes: the list it returns
categorize_phonemes(phonemes_) == TokRun(TokEntry(phonemes_)).categorized_phonemes

(***************************************************************************)
(* categorize_phonemes as a state machine, called by parse_phonemes: one   *)
(* action per outcome of an iteration, and one for the return.             *)
(***************************************************************************)
tokState == TokState(unparsed, categorized_phonemes, stderr, tok_pc)

TokSet(st) ==
    /\ unparsed' = st.unparsed
    /\ categorized_phonemes' = st.categorized_phonemes
    /\ stderr' = st.stderr
    /\ tok_pc' = st.pc
    /\ UNCHANGED <<phonemes, phoneme_index, parsed, syllable_phonemes,
                   consonants_between_vowels, vowel_present, seg_pc, cfgVars,
                   event_count, note_on_count, event, first_note_ticks,
                   sustained_entity, start_of_sustain, next_syllable_index,
                   output, pc>>

TokMatch ==
    /\ TokLoops(tokState)
    /\ category_match(unparsed) # None
    /\ TokSet(TokIteration(tokState))

TokFail ==
    /\ TokLoops(tokState)
    /\ category_match(unparsed) = None
    /\ TokSet(TokIteration(tokState))

\* `return categorized_phonemes`: parse_phonemes goes on to its loop.
TokReturn ==
    /\ tok_pc \in {"loop", "break"}
    /\ ~TokLoops(tokState)
    /\ tok_pc' = "returned"
    /\ seg_pc' = "loop"
    /\ UNCHANGED <<phonemes, unparsed, categorized_phonemes, phoneme_index, parsed,
                   syllable_phonemes, consonants_between_vowels, vowel_present,
                   cfgVars, walkVars>>

(***************************************************************************)
(* MIDI events.                                                            *)
(***************************************************************************)
\* Note.notes of the MIDI library: the pitch classes of an octave, from c
NoteNames == <<"c", "c#", "d", "d#", "e", "f", "f#", "g", "g#", "a", "a#", "b">>

\* notes.index(name)
NoteIndex(name) == (CHOOSE i \in 1..Len(NoteNames) : NoteNames[i] = name) - 1

Event(h, t, n, v) == [header |-> h, time |-> t, message |-> [note |-> n, velocity |-> v]]

get_event_type(ev) ==
    IF VEL_ZERO_IS_NOTE_OFF /\ ev.header = NOTE_ON /\ ev.message.velocity = 0
        THEN NOTE_OFF
    ELSE IF ev.header \in {NOTE_OFF, NOTE_ON} THEN ev.header
    ELSE UNUSED

calculate_midi_pitch(note) == note.octave * 12 + NoteIndex(note.note)

calculate_dectalk_pitch(note) == calculate_midi_pitch(note) - MIDI_DECTALK_PITCH_DELTA

\* The event's time in milliseconds, as the rational num/den.
get_event_time_millis(ev, tempo_, ticks_per_beat_, first_note_ticks_) ==
    LET time_in_ticks ==
            IF Truthy(first_note_ticks_)
                THEN ev.time - first_note_ticks_.value
                ELSE ev.time
    IN  [num |-> 60000 * time_in_ticks, den |-> ticks_per_beat_ * tempo_]

\* round(event_time_millis - start_of_sustain, 0)
SustainDuration(ms, start) == PyRound(ms.num - start * ms.den, ms.den)

(***************************************************************************)
(* The renderer.                                                           *)
(***************************************************************************)
get_converted_phoneme(phoneme) ==
    IF phoneme \in DOMAIN PHONEME_CONVERSION
        THEN PHONEME_CONVERSION[phoneme]
        ELSE phoneme

get_consonant_duration(consonant, durations) ==
    IF consonant \in DOMAIN durations
        THEN durations[consonant]
        ELSE DEFAULT_CONSONANT_DURATION

\* The key the first loop of translate_syllable_to_dectalk looks a consonant's
\* duration up by.
DurationKey(phoneme) == get_converted_phoneme(phoneme.phoneme)

RECURSIVE TotalConsonantDuration(_, _)
TotalConsonantDuration(syllable, durations) ==
    IF syllable = <<>> THEN 0
    ELSE (IF Head(syllable).category = Category.consonant
            THEN get_consonant_duration(DurationKey(Head(syllable)), durations)
            ELSE 0)
         + TotalConsonantDuration(Tail(syllable), durations)

\* duration - total_consonant_duration
VowelDuration(syllable, duration, durations) ==
    duration - TotalConsonantDuration(syllable, durations)

\* The overflow test written `<= 0`.
OverflowsAtZero(syllable, duration, durations) ==
    VowelDuration(syllable, duration, durations) <= 0

\* The overflow test of translate_syllable_to_dectalk.
Overflows(syllable, duration, durations) ==
    VowelDuration(syllable, duration, durations) < 0

\* The text written for one phoneme by the second loop.
RenderPhoneme(phoneme, note, vowel_duration, durations) ==
    LET converted_phoneme == get_converted_phoneme(phoneme.phoneme)
    IN  IF phoneme.category = Category.consonant
            THEN <<[symbol   |-> converted_phoneme,
                    duration |-> get_consonant_duration(converted_phoneme, durations)]>>
        ELSE IF phoneme.category = Category.vowel
            THEN <<[symbol   |-> converted_phoneme,
                    duration |-> vowel_duration,
                    pitch    |-> calculate_dectalk_pitch(note)]>>
        ELSE <<>>

RECURSIVE RenderPhonemes(_, _, _, _)
RenderPhonemes(syllable, note, vowel_duration, durations) ==
    IF syllable = <<>> THEN <<>>
    ELSE RenderPhoneme(Head(syllable), note, vowel_duration, durations)
         \o RenderPhonemes(Tail(syllable), note, vowel_duration, durations)

HasVowel(syllable) ==
    \E i \in 1..Len(syllable) : syllable[i].category = Category.vowel

\* translate_syllable_to_dectalk: "exit" is sys.exit(); "AttributeError" is
\* calculate_midi_pitch reading note.octave of a value that is no Note.
translate_syllable_to_dectalk(syllable, note, duration, durations) ==
    IF Overflows(syllable, duration, durations)
        THEN [status |-> "exit"]
    ELSE IF HasVowel(syllable) /\ note.type # "Note"
        THEN [status |-> "AttributeError"]
    ELSE [status |-> "ok",
          piece  |-> [kind  |-> "syllable",
                      units |-> RenderPhonemes(
                                    syllable, note,
                                    VowelDuration(syllable, duration, durations),
                                    durations)]]

get_dectalk_rest(duration) ==
    [kind |-> "rest", units |-> <<[symbol |-> REST, duration |-> duration]>>]

(***************************************************************************)
(* main: the event walk.  The state of the walk is handled as a record of  *)
(* main's locals; OnNoteOn and OnNoteOff are the two branches of the loop  *)
(* body as functions from the state before an event to the state after it. *)
(***************************************************************************)
OpenBracket == [kind |-> "["]
CloseBracket == [kind |-> "]"]

UnderSupply == "There are more MIDI notes than syllables; output might be truncated"
OverSupply == "There are more syllables than MIDI notes; output might be truncated"
NoNoteOffHint == "TODO: This is likely due to the absence of a note off"
DurationOverflow == "Could not fit all the phonemes"

walkState ==
    [first_note_ticks    |-> first_note_ticks,
     sustained_entity    |-> sustained_entity,
     start_of_sustain    |-> start_of_sustain,
     next_syllable_index |-> next_syllable_index,
     output              |-> output,
     stderr              |-> stderr,
     pc                  |-> pc]

WalkSet(s) ==
    /\ first_note_ticks' = s.first_note_ticks
    /\ sustained_entity' = s.sustained_entity
    /\ start_of_sustain' = s.start_of_sustain
    /\ next_syllable_index' = s.next_syllable_index
    /\ output' = s.output
    /\ stderr' = s.stderr
    /\ pc' = s.pc

\* sys.exit() inside translate_syllable_to_dectalk, after its two error() calls
Exit(s) == [s EXCEPT !.pc = "exit", !.stderr = @ \cup {DurationOverflow}]

\* An exception nobody catches: the traceback is printed and the run ends
\* before the output file is written.
Raise(s, exception) == [s EXCEPT !.pc = "crash", !.stderr = @ \cup {exception}]

\* `if not first_note_ticks: first_note_ticks = event.time`
SetFirstNoteTicks(first_note_ticks_, ev) ==
    IF ~Truthy(first_note_ticks_) THEN PyInt(ev.time) ELSE first_note_ticks_

\* `next_syllable_index >= len(parsed_syllables)` of the NOTE_ON branch
Exhausted(index, syllables) == index >= Len(syllables)

\* The increment forgotten.
CursorNotAdvanced(index) == index

\* `next_syllable_index += 1`
AdvanceCursor(index) == index + 1

\* Renders parsed_syllables[next_syllable_index] against `entity`, appends it
\* to the output, advances the cursor and accumulates the duration.
FlushSyllable(s, entity, duration, syllables, durations) ==
    IF s.next_syllable_index >= Len(syllables)
        THEN Raise(s, "IndexError")
    ELSE LET r == translate_syllable_to_dectalk(
                      syllables[s.next_syllable_index + 1], entity, duration, durations)
         IN  CASE r.status = "exit"           -> Exit(s)
               [] r.status = "AttributeError" -> Raise(s, "AttributeError")
               [] r.status = "ok" ->
                    [s EXCEPT !.output = Append(@, r.piece),
                              !.next_syllable_index = AdvanceCursor(@),
                              !.start_of_sustain = @ + duration]

\* Appends a rest to the output and accumulates the duration.
FlushRest(s, duration) ==
    [s EXCEPT !.output = Append(@, get_dectalk_rest(duration)),
              !.start_of_sustain = @ + duration]

\* `sustained_entity = ...`, reached only when nothing ended the run before
Sustain(s, entity) ==
    IF s.pc = "loop" THEN [s EXCEPT !.sustained_entity = entity] ELSE s

\* The NOTE_ON branch.
OnNoteOn(s, ev, syllables, durations, tempo_, ticks_per_beat_) ==
    LET s1 == [s EXCEPT !.first_note_ticks = SetFirstNoteTicks(@, ev)]
    IN  IF Exhausted(s1.next_syllable_index, syllables)
            THEN [s1 EXCEPT !.stderr = @ \cup {UnderSupply}, !.pc = "after"]
        ELSE LET event_time_millis ==
                     get_event_time_millis(ev, tempo_, ticks_per_beat_,
                                           s1.first_note_ticks)
                 duration == SustainDuration(event_time_millis, s1.start_of_sustain)
                 s2 == IF Truthy(s1.sustained_entity)
                          THEN IF s1.sustained_entity = PyStr(REST)
                                  THEN FlushRest(s1, duration)
                                  ELSE FlushSyllable(s1, s1.sustained_entity, duration,
                                                     syllables, durations)
                          ELSE s1
             IN  Sustain(s2, ev.message.note)

\* `sustained_entity.note == event.message.note.note and
\*  sustained_entity.octave == event.message.note.octave`
SamePitch(a, b) == a.note = b.note /\ a.octave = b.octave

\* The guard of the NOTE_OFF branch without `and sustained_entity`.
NoteOffAlways(entity) == TRUE

\* The guard of the NOTE_OFF branch: `event_type == NOTE_OFF and sustained_entity`
NoteOffHandled(entity) == Truthy(entity)

\* The NOTE_OFF branch.
OnNoteOff(s, ev, ignore_pitch, syllables, durations, tempo_, ticks_per_beat_) ==
    IF ~NoteOffHandled(s.sustained_entity) THEN s
    ELSE IF ~ignore_pitch /\ s.sustained_entity.type # "Note"
        THEN Raise(s, "AttributeError")
    ELSE IF ignore_pitch \/ SamePitch(s.sustained_entity, ev.message.note)
        THEN LET event_time_millis ==
                     get_event_time_millis(ev, tempo_, ticks_per_beat_,
                                           s.first_note_ticks)
                 duration == SustainDuration(event_time_millis, s.start_of_sustain)
             IN  Sustain(FlushSyllable(s, s.sustained_entity, duration,
                                       syllables, durations),
                         PyStr(REST))
    ELSE s

(***************************************************************************)
(* The events a track can deliver next: ticks never decrease.              *)
(***************************************************************************)
TickDeltas == {0, 120}
Pitches == {Note("a", 5), Note("a", 4)}
Velocities == {64}
\* Headers that are neither NOTE_ON nor NOTE_OFF (176: control change).
OtherHeaders == {176}

\* The tick of the event consumed last; a track starts at tick 0.
LastEventTime == IF event = None THEN 0 ELSE event.time

\* Note events carry a note and a velocity; the walk reads neither of any
\* other event.
NextEvents ==
    { Event(h, LastEventTime + d, n, v) :
        h \in {NOTE_ON, NOTE_OFF}, d \in TickDeltas, n \in Pitches, v \in Velocities }
    \cup { [header |-> h, time |-> LastEventTime + d, message |-> None] :
            h \in OtherHeaders, d \in TickDeltas }

Consume(e) ==
    /\ event' = e
    /\ event_count' = event_count + 1
    /\ note_on_count' = IF e.header = NOTE_ON THEN note_on_count + 1 ELSE note_on_count
    /\ UNCHANGED <<tokVars, segVars, cfgVars>>

NoteOn ==
    /\ pc = "loop"
    /\ event_count < MaxEvents
    /\ \E e \in NextEvents :
        /\ get_event_type(e) = NOTE_ON
        /\ Consume(e)
        /\ WalkSet(OnNoteOn(walkState, e, parsed_syllables,
                            CONSONANT_DURATIONS, tempo, ticks_per_beat))

NoteOff ==
    /\ pc = "loop"
    /\ event_count < MaxEvents
    /\ \E e \in NextEvents :
        /\ get_event_type(e) = NOTE_OFF
        /\ Consume(e)
        /\ WalkSet(OnNoteOff(walkState, e, IGNORE_NOTE_OFF_PITCH, parsed_syllables,
                             CONSONANT_DURATIONS, tempo, ticks_per_beat))

OtherEvent ==
    /\ pc = "loop"
    /\ event_count < MaxEvents
    /\ \E e \in NextEvents :
        /\ get_event_type(e) = UNUSED
        /\ Consume(e)
        /\ WalkSet(walkState)

\* The track has no more events: the for loop ends.
EndOfTrack ==
    /\ pc = "loop"
    /\ pc' = "after"
    /\ UNCHANGED <<tokVars, segVars, cfgVars, event_count, note_on_count, event,
                   first_note_ticks, sustained_entity, start_of_sustain,
                   next_syllable_index, output, stderr>>

\* `next_syllable_index <= len(parsed_syllables)`: the test after the loop
\* written with the wrong comparison.
SyllablesRemainOrNone(index, syllables) == index <= Len(syllables)

\* `next_syllable_index < len(parsed_syllables)` after the loop
SyllablesRemain(index, syllables) == index < Len(syllables)

\* The code after the loop: the over-supply report, the closing bracket and
\* the write of the output file.
AfterWalk ==
    /\ pc = "after"
    /\ stderr' = IF SyllablesRemain(next_syllable_index, parsed_syllables)
                    THEN stderr \cup {OverSupply, NoNoteOffHint}
                    ELSE stderr
    /\ output' = Append(output, CloseBracket)
    /\ pc' = "done"
    /\ UNCHANGED <<tokVars, segVars, cfgVars, event_count, note_on_count, event,
                   first_note_ticks, sustained_entity, start_of_sustain,
                   next_syllable_index>>

(***************************************************************************)
(* Specifications.                                                         *)
(***************************************************************************)
\* The configurations and inputs of a run.
DurationTables == { <<>>, ("ll" :> 120) }
Tempos == {150}
TicksPerBeat == {256}

\* The syllable lists parse_phonemes returns for the lyrics of a run.
SyllableLists == { parse_phonemes(tokens) : tokens \in TokenLists(MaxLyricTokens) }

WalkIdle ==
    /\ CONSONANT_DURATIONS = <<>>
    /\ IGNORE_NOTE_OFF_PITCH = TRUE
    /\ tempo = 150
    /\ ticks_per_beat = 256
    /\ parsed_syllables = <<>>
    /\ event_count = 0
    /\ note_on_count = 0
    /\ event = None
    /\ first_note_ticks = None
    /\ sustained_entity = None
    /\ start_of_sustain = 0
    /\ next_syllable_index = 0
    /\ output = <<>>
    /\ stderr = {}
    /\ pc = "idle"

\* The locals of parse_phonemes at its entry, for the token list `tokens`.
SegEntry(tokens) ==
    /\ categorized_phonemes = tokens
    /\ phoneme_index = 0
    /\ parsed = <<>>
    /\ syllable_phonemes = <<>>
    /\ consonants_between_vowels = 0
    /\ vowel_present = FALSE

\* parse_phonemes is not running.
SegIdle == SegEntry(<<>>) /\ seg_pc = "returned"

\* categorize_phonemes is not running.
TokIdle == phonemes = "" /\ unparsed = "" /\ tok_pc = "idle"

\* parse_phonemes alone, on every token list up to MaxTokens.
SegSpecInit ==
    /\ \E tokens \in TokenLists(MaxTokens) : SegEntry(tokens)
    /\ seg_pc = "loop"
    /\ TokIdle
    /\ WalkIdle

SegSpecNext == SegComma \/ SegConsonant \/ SegVowel \/ SegReturn

SegSpec == SegSpecInit /\ [][SegSpecNext]_vars

\* The strings given to parse_phonemes: every string of these characters up
\* to MaxChars.
Chars == {"'", ",", " ", "e", "h", "d", "r", "x"}

RECURSIVE Strings(_)
Strings(n) ==
    IF n = 0 THEN {""}
    ELSE LET shorter == Strings(n - 1)
         IN  shorter \cup { str \o c : str \in shorter, c \in Chars }

\* parse_phonemes at its call of categorize_phonemes, for every string up to
\* n characters.
TokCalled(n) ==
    /\ phonemes \in Strings(n)
    /\ unparsed = phonemes
    /\ tok_pc = "loop"
    /\ SegEntry(<<>>)
    /\ seg_pc = "call"
    /\ WalkIdle

TokSpecInit == TokCalled(MaxChars)

TokNext == TokMatch \/ TokFail \/ TokReturn

TokSpecNext == TokNext \/ SegSpecNext

\* The tokenizer, then the segmenter on the tokens it returned.
TokSpec == TokSpecInit /\ [][TokSpecNext]_vars

\* The same on the strings up to MaxFairChars, with the steps of the program
\* taken as long as there is one: the program is sequential and nothing
\* suspends it.
TokFairInit == TokCalled(MaxFairChars)

TokFairSpec == TokFairInit /\ [][TokSpecNext]_vars /\ WF_vars(TokSpecNext)

\* main from the start of the event walk, with the syllables parse_phonemes
\* returned for the lyrics.
Init ==
    /\ TokIdle
    /\ SegIdle
    /\ parsed_syllables \in SyllableLists
    /\ CONSONANT_DURATIONS \in DurationTables
    /\ IGNORE_NOTE_OFF_PITCH \in BOOLEAN
    /\ tempo \in Tempos
    /\ ticks_per_beat \in TicksPerBeat
    /\ event_count = 0
    /\ note_on_count = 0
    /\ event = None
    /\ first_note_ticks = None
    /\ sustained_entity = None
    /\ start_of_sustain = 0
    /\ next_syllable_index = 0
    /\ output = <<OpenBracket>>
    /\ stderr = {}
    /\ pc = "loop"

Next == NoteOn \/ NoteOff \/ OtherEvent \/ EndOfTrack \/ AfterWalk

Spec == Init /\ [][Next]_vars

(***************************************************************************)
(* Properties of parse_phonemes, checked under SegSpec.                    *)
(***************************************************************************)
Last(seq) == seq[Len(seq)]

VowelCount(syllable) ==
    Cardinality({ i \in 1..Len(syllable) : syllable[i].category = Category.vowel })

RECURSIVE Flatten(_)
Flatten(syllables) ==
    IF syllables = <<>> THEN <<>>
    ELSE Head(syllables) \o Flatten(Tail(syllables))

IsWordToken(token) == token.category # Category.comma

WithoutCommas(tokens) == SelectSeq(tokens, IsWordToken)

\* C1: every syllable parse_phonemes returns contains exactly one vowel.
C1_ExactlyOneVowel ==
    seg_pc = "returned" =>
        \A i \in 1..Len(parsed) : VowelCount(parsed[i]) = 1

\* C2: the syllables returned, concatenated in order, are the input tokens
\* with the word boundaries removed; while the loop runs, the completed
\* syllables followed by the buffer are the tokens consumed so far.
C2_Concatenation ==
    /\ seg_pc = "loop" =>
        Flatten(parsed) \o syllable_phonemes
            = WithoutCommas(SubSeq(categorized_phonemes, 1, phoneme_index))
    /\ seg_pc = "returned" =>
        Flatten(parsed) = WithoutCommas(categorized_phonemes)

\* The categories of tokens[i], tokens[i+1], ... are those of `pattern`.
CategoriesAt(tokens, i, pattern) ==
    /\ i + Len(pattern) - 1 <= Len(tokens)
    /\ \A k \in 1..Len(pattern) : tokens[i + k - 1].category = pattern[k]

\* A finished run of parse_phonemes that took the 2+-consonant tie-break
\* (two different consonants between two vowels of a word) and then the
\* 1-consonant tie-break, and flushed the last buffer at the end of input.
C2_Witness ==
    /\ seg_pc = "returned"
    /\ Len(parsed) = 3
    /\ \E i \in 1..Len(categorized_phonemes) :
        /\ CategoriesAt(categorized_phonemes, i, <<"V", "C", "C", "V", "C", "V">>)
        /\ categorized_phonemes[i + 1] # categorized_phonemes[i + 2]

\* The number of consonant tokens directly before tokens[i + 1].
TrailingConsonants(tokens, i) ==
    CHOOSE m \in 0..i :
        /\ \A j \in (i - m + 1)..i : tokens[j].category = Category.consonant
        /\ m < i => tokens[i - m].category # Category.consonant

\* C15: when the loop meets a vowel and the token before the n consonants
\* that precede it is a vowel too (a second vowel of the same word), one
\* syllable is flushed: the buffer without its last k tokens, so that it ends
\* with the previous vowel and the first n - k consonants; the new buffer is
\* the last k consonants followed by the new vowel; k is 0, 1 or floor(n/2)
\* for n = 0, n = 1 or n >= 2.
C15_TieBreak ==
    [][(/\ seg_pc = "loop"
        /\ phoneme_index' = phoneme_index + 1
        /\ categorized_phonemes[phoneme_index + 1].category = Category.vowel)
        => LET n == TrailingConsonants(categorized_phonemes, phoneme_index)
               k == IF n = 0 THEN 0 ELSE IF n = 1 THEN 1 ELSE n \div 2
               b == Len(syllable_phonemes)
           IN  (n < phoneme_index
                    /\ categorized_phonemes[phoneme_index - n].category = Category.vowel)
                => /\ Len(parsed') = Len(parsed) + 1
                   /\ SubSeq(parsed', 1, Len(parsed)) = parsed
                   /\ Last(parsed') = SubSeq(syllable_phonemes, 1, b - k)
                   /\ SubSeq(syllable_phonemes, b - n, b - k)
                        = SubSeq(categorized_phonemes, phoneme_index - n,
                                 phoneme_index - k)
                   /\ syllable_phonemes'
                        = SubSeq(categorized_phonemes, phoneme_index - k + 1,
                                 phoneme_index + 1)
      ]_vars

\* The loop has just met the second vowel of a word after three consonants,
\* no two of them alike in a row: two stay with the first syllable and one
\* starts the second.
C15_Witness ==
    /\ seg_pc = "loop"
    /\ phoneme_index = 5
    /\ CategoriesAt(categorized_phonemes, 1, <<"V", "C", "C", "C", "V">>)
    /\ categorized_phonemes[2] # categorized_phonemes[3]
    /\ categorized_phonemes[3] # categorized_phonemes[4]
    /\ parsed = <<SubSeq(categorized_phonemes, 1, 3)>>
    /\ syllable_phonemes = SubSeq(categorized_phonemes, 4, 5)

\* C19: every completed syllable is non-empty and has at most one vowel;
\* while the loop runs the buffer has at most one vowel, and vowel_present
\* is true exactly when it has one.
C19_AtMostOneVowel ==
    /\ \A i \in 1..Len(parsed) :
            parsed[i] # <<>> /\ VowelCount(parsed[i]) <= 1
    /\ seg_pc = "loop" =>
            /\ VowelCount(syllable_phonemes) <= 1
            /\ vowel_present <=> VowelCount(syllable_phonemes) = 1

\* A finished run over a word boundary followed by a word of two adjacent
\* vowels.
C19_Witness ==
    /\ seg_pc = "returned"
    /\ CategoriesAt(categorized_phonemes, 1, <<"V", ",", "C", "V", "V">>)
    /\ Len(categorized_phonemes) = 5
    /\ Len(parsed) = 3

(***************************************************************************)
(* Properties of the event walk, checked under Spec.                       *)
(***************************************************************************)
\* The step handles one event of the track.
Consumed == event_count' = event_count + 1

\* The step appends exactly one piece to the output.
AppendsPiece == Len(output') = Len(output) + 1 /\ SubSeq(output', 1, Len(output)) = output

\* The event handled by the step needs the held pitch flushed against the
\* next syllable: a note-on while a pitch sustains, or a qualifying note-off.
FlushNeeded ==
    /\ Consumed
    /\ sustained_entity.type = "Note"
    /\ \/ get_event_type(event') = NOTE_ON
       \/ /\ get_event_type(event') = NOTE_OFF
          /\ IGNORE_NOTE_OFF_PITCH
             \/ (/\ sustained_entity.note = event'.message.note.note
                 /\ sustained_entity.octave = event'.message.note.octave)

\* Every syllable of the run has exactly one vowel.
OneVowelEach ==
    \A k \in 1..Len(parsed_syllables) : VowelCount(parsed_syllables[k]) = 1

\* C3: a walk over more note-on events than there are syllables (each with
\* its vowel) ends with SyllableUnderSupply reported and the output written.
C3_UnderSupplyReported ==
    (/\ OneVowelEach
     /\ pc \in {"done", "crash"}
     /\ note_on_count > Len(parsed_syllables))
        => (pc = "done" /\ UnderSupply \in stderr)

\* C4: a flush needed when the cursor equals the number of syllables stops
\* the walk with under-supply reported and the output kept, and no syllable
\* is read outside the list.
C4_ExhaustedFlushStops ==
    [][(OneVowelEach /\ Consumed) =>
        /\ (FlushNeeded /\ next_syllable_index = Len(parsed_syllables))
            => (pc' = "after" /\ UnderSupply \in stderr' /\ output' = output)
        /\ "IndexError" \notin stderr'
      ]_vars

\* The sum of the consonant durations of a syllable, each looked up by the
\* translated symbol in the override table, else the default.
RECURSIVE ConsonantSum(_)
ConsonantSum(syllable) ==
    IF syllable = <<>> THEN 0
    ELSE LET p == Head(syllable)
             symbol == IF p.phoneme \in DOMAIN PHONEME_CONVERSION
                          THEN PHONEME_CONVERSION[p.phoneme] ELSE p.phoneme
             d == IF symbol \in DOMAIN CONSONANT_DURATIONS
                     THEN CONSONANT_DURATIONS[symbol] ELSE DEFAULT_CONSONANT_DURATION
         IN  (IF p.category = Category.consonant THEN d ELSE 0)
             + ConsonantSum(Tail(syllable))

\* The step calls translate_syllable_to_dectalk.
RenderCalled ==
    /\ Consumed
    /\ next_syllable_index < Len(parsed_syllables)
    /\ Truthy(sustained_entity)
    /\ \/ get_event_type(event') = NOTE_ON /\ sustained_entity # PyStr(REST)
       \/ /\ get_event_type(event') = NOTE_OFF
          /\ IGNORE_NOTE_OFF_PITCH
             \/ (/\ sustained_entity.type = "Note"
                 /\ sustained_entity.note = event'.message.note.note
                 /\ sustained_entity.octave = event'.message.note.octave)

\* total_duration_ms of that call
TotalDuration ==
    SustainDuration(
        get_event_time_millis(event', tempo, ticks_per_beat, first_note_ticks'),
        start_of_sustain)

NoNegativeVowel(out) ==
    \A i \in 1..Len(out) :
        out[i].kind = "syllable" =>
            \A k \in 1..Len(out[i].units) :
                "pitch" \in DOMAIN out[i].units[k] => out[i].units[k].duration >= 0

\* C5: a render whose consonant durations sum to more than the total duration
\* ends the run (sys.exit) with nothing appended to the output, and no step
\* follows; a render against a held note whose consonants fit appends the
\* syllable and raises no overflow; the run is ended that way only by an
\* overflowing render; no vowel in the output has a negative duration.
C5_DurationOverflow ==
    [][/\ RenderCalled =>
            LET syllable == parsed_syllables[next_syllable_index + 1]
            IN  /\ ConsonantSum(syllable) > TotalDuration
                    => /\ pc' = "exit"
                       /\ DurationOverflow \in stderr'
                       /\ output' = output
                       /\ next_syllable_index' = next_syllable_index
                /\ ConsonantSum(syllable) <= TotalDuration
                    => /\ pc' # "exit"
                       /\ DurationOverflow \notin stderr'
                /\ (ConsonantSum(syllable) <= TotalDuration
                        /\ sustained_entity.type = "Note")
                    => /\ pc' = "loop"
                       /\ AppendsPiece
                       /\ Last(output').kind = "syllable"
                       /\ Len(Last(output').units) = Len(syllable)
       /\ pc' = "exit" => RenderCalled
       /\ pc # "exit"
       /\ NoNegativeVowel(output')
      ]_vars

\* An overflow after a syllable was rendered, decided by an override.
C5_Witness ==
    /\ pc = "exit"
    /\ DurationOverflow \in stderr
    /\ CONSONANT_DURATIONS # <<>>
    /\ next_syllable_index = 1
    /\ Len(output) = 2
    /\ output[2].kind = "syllable"
    /\ ConsonantSum(parsed_syllables[2]) > DEFAULT_CONSONANT_DURATION * Len(parsed_syllables[2])

RECURSIVE SumDurations(_)
SumDurations(units) ==
    IF units = <<>> THEN 0
    ELSE Head(units).duration + SumDurations(Tail(units))

\* C6: the durations written into a rendered syllable sum to the duration of
\* the sustain interval it was rendered for.
C6_DurationConservation ==
    [][(Consumed /\ AppendsPiece /\ Last(output').kind = "syllable")
        => SumDurations(Last(output').units) = TotalDuration]_vars

\* C7: first_note_ticks is unset until the first note-on, is then set to that
\* event's tick, and never changes afterwards.
C7_FirstNoteTicksFixed ==
    [][/\ first_note_ticks # None => first_note_ticks' = first_note_ticks
       /\ (first_note_ticks = None /\ Consumed /\ get_event_type(event') = NOTE_ON)
            => first_note_ticks' = PyInt(event'.time)
       /\ (first_note_ticks = None /\ ~(Consumed /\ get_event_type(event') = NOTE_ON))
            => first_note_ticks' = None
      ]_vars

\* C8: a note-off that arrives while nothing or a Rest is sustaining changes
\* nothing and the walk continues.
C8_NoteOffWithoutPitch ==
    [][(/\ OneVowelEach
        /\ Consumed
        /\ get_event_type(event') = NOTE_OFF
        /\ sustained_entity \in {None, PyStr(REST)})
        => /\ pc' = "loop"
           /\ UNCHANGED <<output, next_syllable_index, sustained_entity,
                          start_of_sustain>>
      ]_vars

IsSyllablePiece(piece) == piece.kind = "syllable"

\* C9: the cursor moves by one exactly when a syllable piece is appended and
\* not otherwise; a step appends at most one piece, at the end of the output;
\* the k-th syllable piece of the output carries the translated symbols of
\* the k-th syllable.
C9_CursorInOrder ==
    [][/\ next_syllable_index' \in {next_syllable_index, next_syllable_index + 1}
       /\ next_syllable_index' = next_syllable_index + 1
            <=> (Consumed /\ AppendsPiece /\ Last(output').kind = "syllable")
       /\ output' = output \/ AppendsPiece
       /\ LET pieces == SelectSeq(output', IsSyllablePiece)
          IN  /\ Len(pieces) = next_syllable_index'
              /\ \A k \in 1..Len(pieces) :
                    /\ Len(pieces[k].units) = Len(parsed_syllables[k])
                    /\ \A i \in 1..Len(pieces[k].units) :
                        LET symbol == parsed_syllables[k][i].phoneme
                        IN  pieces[k].units[i].symbol
                                = IF symbol \in DOMAIN PHONEME_CONVERSION
                                    THEN PHONEME_CONVERSION[symbol] ELSE symbol
      ]_vars

\* Two different syllables rendered in order, with a rest between them.
C9_Witness ==
    /\ next_syllable_index = 2
    /\ parsed_syllables[1] # parsed_syllables[2]
    /\ Len(output) = 4
    /\ output[2].kind = "syllable"
    /\ output[3].kind = "rest"
    /\ output[4].kind = "syllable"

\* C10: a walk that reaches the end of the track while a pitch is sustaining
\* (the loop was not left by the under-supply break) has a missing note-off
\* reported with the output it wrote.
C10_DanglingSustainReported ==
    (/\ OneVowelEach
     /\ pc = "done"
     /\ UnderSupply \notin stderr
     /\ sustained_entity.type = "Note")
        => NoNoteOffHint \in stderr

\* C11: the over-supply warning is written by the code after the walk, and by
\* nothing else, exactly when the cursor is less than the number of
\* syllables; the run still closes and writes the output it rendered; the
\* warning never comes in the same run as the under-supply report.
C11_OverSupplyReported ==
    [][/\ pc' = "done" =>
            /\ pc = "after"
            /\ OverSupply \in stderr'
                    <=> next_syllable_index < Len(parsed_syllables)
            /\ output' = Append(output, CloseBracket)
            /\ next_syllable_index' = next_syllable_index
            /\ ~(OverSupply \in stderr' /\ UnderSupply \in stderr')
       /\ pc' # "done" => OverSupply \notin stderr'
      ]_vars

\* A finished run that rendered a syllable and a rest, and left syllables.
C11_Witness ==
    /\ pc = "done"
    /\ OverSupply \in stderr
    /\ next_syllable_index = 1
    /\ Len(parsed_syllables) = 2
    /\ Len(output) = 4
    /\ output[2].kind = "syllable"
    /\ output[3].kind = "rest"

\* C14: the events before the first note-on, and the first note-on itself,
\* write nothing and flush nothing; the first piece written is a syllable,
\* never a rest, and it is flushed with start_of_sustain at 0.
C14_NoLeadingSilence ==
    [][/\ (Consumed /\ note_on_count = 0) =>
            /\ output' = output
            /\ start_of_sustain' = start_of_sustain
            /\ next_syllable_index' = next_syllable_index
            /\ get_event_type(event') # NOTE_ON => sustained_entity' = None
       /\ (Consumed /\ Len(output) = 1 /\ output' # output) =>
            /\ note_on_count >= 1
            /\ AppendsPiece
            /\ Last(output').kind = "syllable"
            /\ start_of_sustain = 0
       /\ Len(output') >= 2 => output'[2].kind # "rest"
      ]_vars

\* The first note-on came at tick 240, after an earlier event, and its
\* syllable was flushed by the event after it.
C14_Witness ==
    /\ first_note_ticks = PyInt(240)
    /\ event_count = 3
    /\ Len(output) = 2
    /\ output[2].kind = "syllable"
    /\ pc = "loop"

\* Every vowel of the piece carries the DECTalk pitch of `note`.
SungAt(piece, note) ==
    \A i \in 1..Len(piece.units) :
        "pitch" \in DOMAIN piece.units[i] =>
            piece.units[i].pitch
                = note.octave * 12 + NoteIndex(note.note) - MIDI_DECTALK_PITCH_DELTA

\* C17: while a pitch is sustaining, a note-off that does not qualify (the
\* policy is pitch-exact and its pitch differs from the held one) changes
\* nothing; a note-off that qualifies (any note-off under the any-pitch
\* policy, one of the held pitch under the pitch-exact policy) flushes the
\* next syllable at the held pitch, advances the cursor by one and starts
\* sustaining Rest, unless the renderer ends the run on a duration overflow.
C17_NoteOffPolicy ==
    [][(/\ OneVowelEach
        /\ Consumed
        /\ get_event_type(event') = NOTE_OFF
        /\ sustained_entity.type = "Note")
        => LET qualifies ==
                   \/ IGNORE_NOTE_OFF_PITCH
                   \/ /\ sustained_entity.note = event'.message.note.note
                      /\ sustained_entity.octave = event'.message.note.octave
           IN  /\ ~qualifies =>
                    /\ pc' = "loop"
                    /\ UNCHANGED <<output, next_syllable_index, sustained_entity,
                                   start_of_sustain>>
               /\ (qualifies /\ pc' # "exit") =>
                    /\ pc' = "loop"
                    /\ next_syllable_index' = next_syllable_index + 1
                    /\ AppendsPiece
                    /\ Last(output').kind = "syllable"
                    /\ SungAt(Last(output'), sustained_entity)
                    /\ sustained_entity' = PyStr(REST)
      ]_vars

\* The step calls get_dectalk_rest.
RestFlushed ==
    /\ Consumed
    /\ get_event_type(event') = NOTE_ON
    /\ next_syllable_index < Len(parsed_syllables)
    /\ sustained_entity = PyStr(REST)

\* C18: the ticks of the events never decrease, and every duration given to
\* the renderer, for a syllable or for a rest, is 0 or more: no rest in the
\* output has a negative duration and start_of_sustain never decreases.
C18_NonNegativeDurations ==
    [][OneVowelEach =>
        /\ (RenderCalled \/ RestFlushed) => TotalDuration >= 0
        /\ \A i \in 1..Len(output') :
                output'[i].kind = "rest" => output'[i].units[1].duration >= 0
        /\ start_of_sustain' >= start_of_sustain
      ]_vars

(***************************************************************************)
(* Properties of the tokenizer, checked under TokSpec.                     *)
(***************************************************************************)
\* The symbols of a token list, concatenated.
RECURSIVE Serialize(_)
Serialize(tokens) ==
    IF tokens = <<>> THEN ""
    ELSE Head(tokens).phoneme \o Serialize(Tail(tokens))

SymbolsOf(table) == { table[i] : i \in 1..Len(table) }

\* `str` starts with a vowel symbol (with or without the stress mark), a
\* consonant symbol or the word boundary.
SomeSymbolMatches(str) ==
    \/ \E t \in SymbolsOf(VOWELS) : startswith(str, t) \/ startswith(str, "'" \o t)
    \/ \E t \in SymbolsOf(CONSONANTS) : startswith(str, t)
    \/ startswith(str, ", ")

\* C12: the tokens produced, followed by what is left to tokenize, are the
\* input string at every point; nothing is reported while symbols match; the
\* tokenizer stops at the first position where no symbol matches, reports
\* the remainder from that position and returns the tokens it had; without
\* a failure the tokens returned are the whole input.
C12_TokenizeFailure ==
    /\ tok_pc # "idle" => Serialize(categorized_phonemes) \o unparsed = phonemes
    /\ tok_pc = "loop" => stderr = {}
    /\ tok_pc \in {"break", "returned"} =>
        /\ unparsed = "" => stderr = {}
        /\ unparsed # "" =>
            /\ ~SomeSymbolMatches(unparsed)
            /\ stderr = {ParseError \o unparsed}

\* A failure after a stressed vowel was produced.
C12_Witness ==
    /\ tok_pc = "returned"
    /\ Len(categorized_phonemes) = 1
    /\ startswith(categorized_phonemes[1].phoneme, "'")
    /\ unparsed # ""
    /\ stderr = {ParseError \o unparsed}

\* C13: the tokens of a string, written back as a string and given to the
\* tokenizer and the segmenter again, give the same tokens and the same
\* syllables as the string did.
C13_RoundTrip ==
    seg_pc = "returned" /\ tok_pc = "returned" =>
        LET again == categorize_phonemes(Serialize(categorized_phonemes))
        IN  /\ again = categorized_phonemes
            /\ parse_phonemes(again) = parsed

\* A finished run on a string that is not its own serialization (the
\* tokenizer failed part-way), with a stressed vowel after a consonant.
C13_Witness ==
    /\ seg_pc = "returned"
    /\ tok_pc = "returned"
    /\ Serialize(categorized_phonemes) # phonemes
    /\ Len(parsed) = 1
    /\ Len(parsed[1]) = 2
    /\ startswith(parsed[1][2].phoneme, "'")

\* The longest symbol of `table` that `str` starts with, "" when there is none.
LongestMatch(str, table) ==
    LET hits == { t \in SymbolsOf(table) : startswith(str, t) }
    IN  IF hits = {} THEN ""
        ELSE CHOOSE t \in hits : \A u \in hits : Len(u) <= Len(t)

\* One attempt of a longest-match matcher on one table.
LongestSplit(str, category, table, match_apostrophe) ==
    LET stressed == match_apostrophe /\ startswith(str, "'")
        rest     == IF stressed THEN SubSeq(str, 2, Len(str)) ELSE str
        symbol   == LongestMatch(rest, table)
    IN  IF symbol = "" THEN None
        ELSE [phoneme   |-> [phoneme  |-> (IF stressed THEN "'" ELSE "") \o symbol,
                             category |-> category],
              remainder |-> SubSeq(rest, Len(symbol) + 1, Len(rest))]

\* The token a longest-match matcher gives at the start of `str`: the tables
\* in the same priority order.
LongestCategoryMatch(str) ==
    LET v == LongestSplit(str, "V", VOWELS, TRUE)
        c == LongestSplit(str, "C", CONSONANTS, FALSE)
        w == LongestSplit(str, ",", <<", ">>, FALSE)
    IN  IF v # None THEN v ELSE IF c # None THEN c ELSE w

\* No symbol of the table comes before a longer symbol it is a prefix of.
LongerFirst(table) ==
    \A i \in 1..Len(table) : \A j \in (i + 1)..Len(table) :
        ~(Len(table[i]) < Len(table[j]) /\ startswith(table[j], table[i]))

\* C16: at every position the tokenizer reaches, the first match in table
\* order is the match of a longest-match matcher on the same tables (the
\* same token and the same remainder, or no match for both); in VOWELS and
\* in CONSONANTS no symbol comes before a longer symbol it is a prefix of.
C16_FirstMatchIsLongest ==
    /\ (tok_pc = "loop" /\ unparsed # "") =>
            category_match(unparsed) = LongestCategoryMatch(unparsed)
    /\ (tok_pc = "loop" /\ unparsed = phonemes) =>
            LongerFirst(VOWELS) /\ LongerFirst(CONSONANTS)

\* The tokenizer has taken `rx`, not `r`, and stands before `dh`, where `d`
\* matches as well.
C16_Witness ==
    /\ tok_pc = "loop"
    /\ Len(categorized_phonemes) >= 1
    /\ Last(categorized_phonemes).phoneme = "rx"
    /\ startswith(unparsed, "dh")

(***************************************************************************)
(* Termination of the tokenizer, checked under TokFairSpec.                *)
(***************************************************************************)
\* C20: every iteration of the tokenizer's loop either appends one token
\* whose symbol is neither empty nor the stress mark alone and leaves a
\* shorter remainder, or reports a failure and leaves the loop; and every
\* run of the tokenizer returns.
C20_TokenizerTerminates ==
    /\ [][(tok_pc = "loop" /\ unparsed # "") =>
            \/ /\ tok_pc' = "loop"
               /\ Len(unparsed') < Len(unparsed)
               /\ Len(categorized_phonemes') = Len(categorized_phonemes) + 1
               /\ Last(categorized_phonemes').phoneme \notin {"", "'"}
            \/ /\ tok_pc' = "break"
               /\ unparsed' = unparsed
               /\ categorized_phonemes' = categorized_phonemes
          ]_vars
    /\ <>(tok_pc = "returned")

\* The tokenizer has returned two tokens for a string it consumed whole.
C20_Witness ==
    /\ tok_pc = "returned"
    /\ seg_pc = "loop"
    /\ phoneme_index = 0
    /\ unparsed = ""
    /\ Len(categorized_phonemes) = 2

====
